---- MODULE Spec2Model ----
(***************************************************************************)
(* A model of ptrplus (src/src/lib.rs): the AsPtr, IntoRaw and FromRaw     *)
(* traits and their implementations for Box, Rc, Arc, CString, raw         *)
(* pointers, NonNull, references and Option.                               *)
(*                                                                         *)
(* The library's functions are pure conversions between owning values and  *)
(* addresses.  What they convert lives in the caller's memory, so the      *)
(* model carries a heap of payload allocations, the owning values the      *)
(* caller holds, and the raw pointers that into_raw has handed out and     *)
(* from_raw has not yet taken back.                                        *)
(***************************************************************************)
EXTENDS Integers, Sequences, FiniteSets, Bags, TLC

\* ------------------------------------------------------------------ bounds
MaxAlloc == 1       \* heap addresses (a released address is handed out again)
MaxHeld == 2        \* owning values the caller holds at one time
MaxOptDepth == 2    \* nesting of Option<...> around a base type
MaxStrong == 2      \* cap on the strong count of an Rc / Arc

\* The payload values of the doc tests (5, then 6 written through the pointer).
Payloads == {5, 6}

\* ------------------------------------------------------------- addresses
Null == 0
HeapAddrs == 1..MaxAlloc
\* The address of a local variable of the caller (where a Box handle lives).
StackAddr == MaxAlloc + 1
\* The address of a temporary the caller borrows in place.
TempAddr == MaxAlloc + 2

\* ----------------------------------------------------------------- types
OwnedKinds == {"Box", "Rc", "Arc", "CString"}
SharedKinds == {"Rc", "Arc"}
\* Cell<T> and RefCell<T> are values in place: as_ptr points into the cell.
CellKinds == {"Cell", "RefCell"}

Base(tag) == [tag |-> tag]
OptionOf(T) == [tag |-> "Option", inner |-> T]

RECURSIVE OptionClosure(_, _)
\* The types Option^k<B> for B in bases and k <= d.
OptionClosure(bases, d) ==
    IF d = 0 THEN bases
    ELSE LET S == OptionClosure(bases, d - 1)
         IN  S \cup {OptionOf(T) : T \in S}

RECURSIVE BaseOf(_)
BaseOf(T) == IF T.tag = "Option" THEN BaseOf(T.inner) ELSE T.tag

\* ---------------------------------------------------------------- values
Owned(kind, a) == [tag |-> kind, addr |-> a]
Ptr(kind, p) == [tag |-> kind, addr |-> p]
None == [tag |-> "None"]
Some(v) == [tag |-> "Some", inner |-> v]

RECURSIVE ValuesOf(_, _)
\* The values of type T whose base value is drawn from the set bs.
ValuesOf(T, bs) ==
    IF T.tag = "Option"
    THEN {None} \cup {Some(v) : v \in ValuesOf(T.inner, bs)}
    ELSE bs

RECURSIVE Innermost(_)
\* The base value under the Some layers of v, or None.
Innermost(v) == IF v.tag = "Some" THEN Innermost(v.inner) ELSE v

RECURSIVE Wrap(_, _)
\* v under k layers of Some.
Wrap(v, k) == IF k = 0 THEN v ELSE Some(Wrap(v, k - 1))

RECURSIVE Depth(_)
Depth(T) == IF T.tag = "Option" THEN 1 + Depth(T.inner) ELSE 0

\* ------------------------------------------------------------------ heap
\* One cell per allocation: st is "unalloc", "live" or "freed"; val holds the
\* payload as a one-element sequence; strong is the Rc/Arc strong count;
\* frees counts the times the allocation made last at this address was
\* released.
NoCell == [st |-> "unalloc", kind |-> "none", val |-> <<>>, strong |-> 0, frees |-> 0]

NewCell(kind, x) ==
    [st |-> "live", kind |-> kind, val |-> <<x>>,
     strong |-> IF kind \in SharedKinds THEN 1 ELSE 0, frees |-> 0]

\* A released allocation keeps nothing of its payload.
Release(c) == [NoCell EXCEPT !.st = "freed", !.frees = c.frees + 1]

\* Dropping an owning handle: Box and CString release their allocation; Rc and
\* Arc decrement the strong count and release when it reaches zero.
DropOwned(v, h) ==
    IF v.tag \in SharedKinds
    THEN LET n == h[v.addr].strong - 1
         IN  [h EXCEPT ![v.addr] =
                 IF n = 0 THEN Release(@)
                 ELSE [@ EXCEPT !.strong = n]]
    ELSE [h EXCEPT ![v.addr] = Release(@)]

RECURSIVE DropValue(_, _)
DropValue(v, h) ==
    CASE v.tag = "Some" -> DropValue(v.inner, h)
      [] v.tag \in OwnedKinds -> DropOwned(v, h)
      [] OTHER -> h

RECURSIVE Contents(_, _)
\* What an observer reads through the value: the payload of the owning value
\* under its Some layers, nothing for None and for plain pointers.
Contents(v, h) ==
    CASE v.tag = "Some" -> Contents(v.inner, h)
      [] v.tag \in OwnedKinds /\ v.addr \in HeapAddrs -> h[v.addr].val
      [] OTHER -> <<>>

\* ------------------------------------------------------------- as_ptr
\* impl AsPtr for &'a T:  *self as *const T
RefAsPtr(r) == r.addr

\* impl AsPtr for NonNull<T>:  NonNull::as_ptr(*self)
NonNullAsPtr(v) == v.addr

\* impl AsPtr for *const T:  *self
ConstPtrAsPtr(v) == v.addr

\* impl AsPtr for CStr:  CStr::as_ptr(self), the first byte of the buffer
CStrAsPtr(c) == c.addr

\* Deref of a CString is the CStr over its buffer.
CStringDeref(v) == [tag |-> "CStr", addr |-> v.addr]

\* impl AsPtr for CString:  CStr::as_ptr(self)
CStringAsPtr(v) == CStrAsPtr(CStringDeref(v))

\* Deref of a Box is a reference to the heap payload.
BoxDeref(v) == [tag |-> "Ref", addr |-> v.addr]

\* impl AsPtr for Box<T>:  self.deref().as_ptr(); `at` is where the handle lives.
\* Mutant: the reference to the handle is cast, without the deref.
BoxAsPtr_Handle(v, at) == at
BoxAsPtr(v, at) == RefAsPtr(BoxDeref(v))

\* asptr_wrapper!(Cell), (RefCell), (Rc), (Arc):  $name::as_ptr(self)
WrapperAsPtr(v) == v.addr

RECURSIVE AsPtrOf(_, _)
\* Mutant: Some yields the address of the option, not of what it holds.
OptionAsPtr_Self(v, at) ==
    IF v.tag = "Some" THEN at ELSE Null
\* impl AsPtr for Option<T>
OptionAsPtr(v, at) ==
    IF v.tag = "Some" THEN AsPtrOf(v.inner, at) ELSE Null

\* Trait dispatch on the static type of the receiver.
AsPtrOf(v, at) ==
    CASE v.tag \in {"Some", "None"} -> OptionAsPtr(v, at)
      [] v.tag = "Box" -> BoxAsPtr(v, at)
      [] v.tag \in SharedKinds \cup CellKinds -> WrapperAsPtr(v)
      [] v.tag = "CString" -> CStringAsPtr(v)
      [] v.tag = "CStr" -> CStrAsPtr(v)
      [] v.tag = "Ref" -> RefAsPtr(v)
      [] v.tag = "NonNull" -> NonNullAsPtr(v)
      [] v.tag = "ConstPtr" -> ConstPtrAsPtr(v)

\* ------------------------------------------------------------ into_raw
\* Each into_raw yields the pointer and the heap it leaves behind.
\* owned_ptr_wrapper!:  $name::into_raw(self) as *mut T.  The handle is
\* forgotten, not dropped: the allocation and the strong count stay.
\* Mutants: the pointer is taken from a borrow of self, so the handle is
\* dropped as into_raw returns; the handle is cloned before it is leaked.
WrapperIntoRaw_Drops(v, h) == [ptr |-> v.addr, heap |-> DropOwned(v, h)]
WrapperIntoRaw_Clones(v, h) ==
    [ptr |-> v.addr,
     heap |-> IF v.tag \in SharedKinds
              THEN [h EXCEPT ![v.addr].strong = @ + 1] ELSE h]
WrapperIntoRaw(v, h) == [ptr |-> v.addr, heap |-> h]

\* impl IntoRaw for CString:  CString::into_raw(self)
CStringIntoRaw(v, h) == [ptr |-> v.addr, heap |-> h]

\* Mutant: a null pointer (ptr::null_mut()) in place of self.
MutPtrIntoRaw_Null(v, h) == [ptr |-> Null, heap |-> h]
\* impl IntoRaw for *mut T:  self
MutPtrIntoRaw(v, h) == [ptr |-> v.addr, heap |-> h]

\* impl IntoRaw for NonNull<T>:  self.as_ptr()  (the inherent NonNull::as_ptr)
NonNullIntoRaw(v, h) == [ptr |-> v.addr, heap |-> h]

RECURSIVE IntoRawOf(_, _)
\* Mutant: None yields a dangling non-null pointer.
OptionIntoRaw_Dangling(v, h) ==
    IF v.tag = "Some" THEN IntoRawOf(v.inner, h)
    ELSE [ptr |-> TempAddr, heap |-> h]
\* impl IntoRaw for Option<T>
OptionIntoRaw(v, h) ==
    IF v.tag = "Some" THEN IntoRawOf(v.inner, h)
    ELSE [ptr |-> Null, heap |-> h]

IntoRawOf(v, h) ==
    CASE v.tag \in {"Some", "None"} -> OptionIntoRaw(v, h)
      [] v.tag \in {"Box", "Rc", "Arc"} -> WrapperIntoRaw(v, h)
      [] v.tag = "CString" -> CStringIntoRaw(v, h)
      [] v.tag = "MutPtr" -> MutPtrIntoRaw(v, h)
      [] v.tag = "NonNull" -> NonNullIntoRaw(v, h)

\* ------------------------------------------------------------ from_raw
\* Each from_raw yields the value and the list of inner T::from_raw calls
\* the Option implementation made on the way.
\* owned_ptr_wrapper!:  $name::from_raw(raw), a handle over the allocation at raw.
\* Mutants: the handle is built over the address before the payload (the
\* allocation header); over the address after it.
WrapperFromRaw_Header(T, raw) == [val |-> Owned(T.tag, raw - 1), calls |-> <<>>]
WrapperFromRaw_Past(T, raw) == [val |-> Owned(T.tag, raw + 1), calls |-> <<>>]
WrapperFromRaw(T, raw) == [val |-> Owned(T.tag, raw), calls |-> <<>>]

\* impl FromRaw<c_char> for CString:  CString::from_raw(raw)
CStringFromRaw(raw) == [val |-> Owned("CString", raw), calls |-> <<>>]

\* impl FromRaw<T> for *mut T:  raw
MutPtrFromRaw(raw) == [val |-> Ptr("MutPtr", raw), calls |-> <<>>]

\* impl FromRaw<T> for *const T:  raw
ConstPtrFromRaw(raw) == [val |-> Ptr("ConstPtr", raw), calls |-> <<>>]

\* impl FromRaw<T> for NonNull<T>:  NonNull::new_unchecked(raw)
NonNullFromRaw(raw) == [val |-> Ptr("NonNull", raw), calls |-> <<>>]

RECURSIVE FromRawOf(_, _)
\* Mutants: the null test is missing; the null test is inverted.
OptionFromRaw_Unchecked(T, raw) ==
    LET r == FromRawOf(T.inner, raw)
    IN  [val |-> Some(r.val),
         calls |-> <<[ty |-> T.inner, raw |-> raw]>> \o r.calls]
OptionFromRaw_NonNullIsNone(T, raw) ==
    IF raw # Null THEN [val |-> None, calls |-> <<>>]
    ELSE LET r == FromRawOf(T.inner, raw)
         IN  [val |-> Some(r.val),
              calls |-> <<[ty |-> T.inner, raw |-> raw]>> \o r.calls]
\* impl FromRaw<U> for Option<T>
OptionFromRaw(T, raw) ==
    IF raw = Null THEN [val |-> None, calls |-> <<>>]
    ELSE LET r == FromRawOf(T.inner, raw)
         IN  [val |-> Some(r.val),
              calls |-> <<[ty |-> T.inner, raw |-> raw]>> \o r.calls]

FromRawOf(T, raw) ==
    CASE T.tag = "Option" -> OptionFromRaw(T, raw)
      [] T.tag \in {"Box", "Rc", "Arc"} -> WrapperFromRaw(T, raw)
      [] T.tag = "CString" -> CStringFromRaw(raw)
      [] T.tag = "MutPtr" -> MutPtrFromRaw(raw)
      [] T.tag = "ConstPtr" -> ConstPtrFromRaw(raw)
      [] T.tag = "NonNull" -> NonNullFromRaw(raw)

\* ----------------------------------------------------------------- state
VARIABLES
    heap,   \* HeapAddrs -> cell
    held,   \* the bag of owning values, each with its type, the caller holds
    raws,   \* HeapAddrs -> pointers into_raw returned and from_raw has not taken
    last    \* the most recent operation, with its argument and result

vars == <<heap, held, raws, last>>

NoEvent == [op |-> "none"]

\* What a later operation keeps of the operation it directly follows.
Core(e) == [op |-> e.op, ty |-> e.ty, val |-> e.val, ptr |-> e.ptr, obs |-> e.obs]

\* An operation of the library: on the value v of type T (the receiver of
\* as_ptr, at address `at`; the argument of into_raw; the result of from_raw)
\* and the pointer p (the result of as_ptr and into_raw; the argument of
\* from_raw), with the payload obs read through v at that moment.
Event(op, T, v, at, p, obs, calls, pre) ==
    [op |-> op, ty |-> T, val |-> v, at |-> at, ptr |-> p, obs |-> obs,
     calls |-> calls, pre |-> pre]

\* The handles in the bag b that own the allocation at a.
HandlesIn(b, a) ==
    LET S == {e \in BagToSet(b) : Innermost(e.val).addr = a}
    IN  BagCardinality([e \in S |-> b[e]])

Handles(a) == HandlesIn(held, a)

\* The caller holds the value v of type T.
Holding(T, v) == SetToBag({[ty |-> T, val |-> v]})
\* The caller has room for one more owning value.
HasRoom == BagCardinality(held) < MaxHeld

Unallocated == {a \in HeapAddrs : heap[a].st # "live"}
\* The allocator hands out the lowest address that holds no live allocation.
NextAddr == CHOOSE a \in Unallocated : \A b \in Unallocated : a <= b

OwnedTypes == OptionClosure({Base(k) : k \in OwnedKinds}, MaxOptDepth)

Init ==
    /\ heap = [a \in HeapAddrs |-> NoCell]
    /\ held = EmptyBag
    /\ raws = [a \in HeapAddrs |-> 0]
    /\ last = NoEvent

\* --------------------------------------------------------- the caller
\* Box::new(5), Rc::new, Arc::new, CString::new, optionally under Some(...).
Create ==
    \E T \in OwnedTypes, x \in Payloads :
        /\ HasRoom
        /\ Unallocated # {}
        /\ heap' = [heap EXCEPT ![NextAddr] = NewCell(BaseOf(T), x)]
        /\ held' = held (+) Holding(T, Wrap(Owned(BaseOf(T), NextAddr), Depth(T)))
        /\ last' = [op |-> "create"]
        /\ UNCHANGED raws

\* Rc::clone / Arc::clone: one more handle, one more strong count.
Clone ==
    \E e \in BagToSet(held) :
        /\ HasRoom
        /\ LET v == Innermost(e.val)
           IN  /\ v.tag \in SharedKinds
               /\ heap[v.addr].strong < MaxStrong
               /\ heap' = [heap EXCEPT ![v.addr].strong = @ + 1]
        /\ held' = held (+) Holding(e.ty, e.val)
        /\ last' = [op |-> "clone"]
        /\ UNCHANGED raws

\* A value the caller holds goes out of scope: it is dropped.
Drop ==
    \E e \in BagToSet(held) :
        /\ heap' = DropValue(e.val, heap)
        /\ held' = held (-) Holding(e.ty, e.val)
        /\ last' = [op |-> "drop", val |-> e.val,
                    pre |-> IF last.op = "from_raw" /\ last.val = e.val
                            THEN Core(last) ELSE NoEvent]
        /\ UNCHANGED raws

\* *y = 6: a store through a pointer into_raw returned for a Box.
WriteRaw ==
    \E a \in HeapAddrs, x \in Payloads :
        /\ raws[a] > 0
        /\ heap[a].kind = "Box"
        /\ heap' = [heap EXCEPT ![a].val = <<x>>]
        /\ last' = [op |-> "write", ptr |-> a, old |-> heap[a].val, obs |-> <<x>>]
        /\ UNCHANGED <<held, raws>>

\* ------------------------------------------------------ the conversions
\* The addresses the caller's plain pointers take: null and the payloads.
PtrAddrs == {Null} \cup HeapAddrs

\* The caller holds no owning value and no pointer into_raw returned.  The
\* conversions of temporaries below neither read nor change the heap, the
\* values held or those pointers, so the caller makes them in such states.
HoldsNothing ==
    /\ held = EmptyBag
    /\ \A a \in HeapAddrs : raws[a] = 0

\* The base values the caller passes as temporaries.  Owning values are
\* held, so a temporary of an owning Option type is None under some
\* number of Some layers; references and NonNull are never null; a Cell or
\* RefCell is named by the address of its content.
TempBase(tag) ==
    CASE tag \in {"MutPtr", "ConstPtr"} -> {Ptr(tag, p) : p \in PtrAddrs}
      [] tag \in {"NonNull", "Ref"} \cup CellKinds ->
            {Ptr(tag, p) : p \in HeapAddrs}
      [] OTHER -> {}

TempValues(T) == ValuesOf(T, TempBase(BaseOf(T)))

AsPtrTempTypes ==
    OptionClosure({Base(k) : k \in {"Ref", "ConstPtr", "NonNull"}
                                    \cup CellKinds \cup OwnedKinds},
                  MaxOptDepth)

IntoRawTempTypes ==
    OptionClosure({Base(k) : k \in {"MutPtr", "NonNull"} \cup OwnedKinds},
                  MaxOptDepth)

FromRawTypes ==
    OptionClosure({Base(k) : k \in {"MutPtr", "ConstPtr", "NonNull"} \cup OwnedKinds},
                  MaxOptDepth)

\* as_ptr(&self) on the value v of type T that lives at address `at`.
AsPtrStep(T, v, at) ==
    /\ last' = Event("as_ptr", T, v, at, AsPtrOf(v, at), Contents(v, heap),
                     <<>>, NoEvent)
    /\ UNCHANGED <<heap, held, raws>>

AsPtr ==
    \/ \E e \in BagToSet(held) :
        AsPtrStep(e.ty, e.val, StackAddr)
    \/ \E e \in BagToSet(held) :
        \* the CStr borrowed from a CString
        /\ e.ty = Base("CString")
        /\ AsPtrStep(Base("CStr"), CStringDeref(e.val), e.val.addr)
    \/ \E T \in AsPtrTempTypes : \E v \in TempValues(T) :
        /\ HoldsNothing
        /\ AsPtrStep(T, v, TempAddr)

\* into_raw(self) on the value v of type T; the caller keeps the pointer.
IntoRawStep(T, v) ==
    LET r == IntoRawOf(v, heap)
    IN  /\ heap' = r.heap
        /\ raws' = IF Innermost(v).tag \in OwnedKinds /\ r.ptr \in HeapAddrs
                   THEN [raws EXCEPT ![r.ptr] = @ + 1]
                   ELSE raws
        /\ last' = Event("into_raw", T, v, Null, r.ptr, Contents(v, heap), <<>>,
                         IF last.op = "as_ptr" /\ last.ty = T /\ last.val = v
                         THEN Core(last) ELSE NoEvent)

IntoRaw ==
    \/ \E e \in BagToSet(held) :
        /\ IntoRawStep(e.ty, e.val)
        /\ held' = held (-) Holding(e.ty, e.val)
    \/ \E T \in IntoRawTempTypes : \E v \in TempValues(T) :
        /\ HoldsNothing
        /\ IntoRawStep(T, v)
        /\ UNCHANGED held

RECURSIVE Compatible(_, _)
\* The caller's side of from_raw's safety contract: an owning type takes a
\* pointer its own into_raw returned and that was not taken back since;
\* NonNull takes a non-null pointer; Option takes null or what its inner
\* type takes; raw pointers take anything.
Compatible(T, raw) ==
    CASE T.tag = "Option" -> raw = Null \/ Compatible(T.inner, raw)
      [] T.tag \in OwnedKinds ->
            raw \in HeapAddrs /\ raws[raw] > 0 /\ heap[raw].kind = T.tag
      [] T.tag = "NonNull" -> raw # Null
      [] OTHER -> TRUE

\* unsafe T::from_raw(raw) for the type T.
FromRawStep(T, raw) ==
    LET r == FromRawOf(T, raw)
    IN  /\ last' = Event("from_raw", T, r.val, Null, raw, Contents(r.val, heap),
                         r.calls,
                         CASE last.op = "into_raw" /\ last.ty = T
                                  /\ last.ptr = raw -> Core(last)
                           [] last.op = "write" /\ last.ptr = raw -> last
                           [] OTHER -> NoEvent)
        /\ UNCHANGED heap

FromRaw ==
    \/ \E T \in OwnedTypes, raw \in HeapAddrs :
        \* a pointer into_raw returned: the caller holds the owning result
        /\ Compatible(T, raw)
        /\ HasRoom
        /\ LET v == FromRawOf(T, raw).val
           IN  held' = IF Innermost(v).tag \in OwnedKinds
                       THEN held (+) Holding(T, v)
                       ELSE held
        /\ raws' = [raws EXCEPT ![raw] = @ - 1]
        /\ FromRawStep(T, raw)
    \/ \E T \in FromRawTypes, raw \in PtrAddrs :
        \* a plain pointer, or null for an Option
        /\ BaseOf(T) \notin OwnedKinds \/ raw = Null
        /\ HoldsNothing
        /\ Compatible(T, raw)
        /\ FromRawStep(T, raw)
        /\ UNCHANGED <<held, raws>>

Next ==
    \/ Create
    \/ Clone
    \/ Drop
    \/ WriteRaw
    \/ AsPtr
    \/ IntoRaw
    \/ FromRaw

Spec == Init /\ [][Next]_vars

\* ================================================================ claims

\* Every operation records itself in last, so last'.op names the step taken.
\* An allocation is released in this step.
Released(a) == heap[a].st = "live" /\ heap'[a].st = "freed"

\* This step drops the only owner of the allocation at a.
DropsLastOwner(a) ==
    /\ last'.op = "drop"
    /\ heap[a].st = "live"
    /\ Handles(a) = 1
    /\ raws[a] = 0
    /\ HandlesIn(held', a) = 0

C1_Held ==
    \A a \in HeapAddrs :
        /\ heap[a].frees <= 1
        /\ raws[a] > 0 => heap[a].st = "live"
        /\ Handles(a) > 0 => heap[a].st = "live"
        /\ heap[a].st # "live" => raws[a] = 0 /\ Handles(a) = 0

C1_Step ==
    /\ last'.op \in {"into_raw", "from_raw"} => heap' = heap
    /\ \A a \in HeapAddrs :
        /\ Released(a) => last'.op = "drop"
        /\ DropsLastOwner(a) => Released(a)

\* C1: while each pointer into_raw returned is given to from_raw at most once,
\* a payload held by a handle or by a raw pointer stays allocated, no
\* allocation is released twice, into_raw and from_raw leave the heap as it
\* is, and an allocation is released exactly by the drop of its last owner.
C1_OwnershipTransfer == []C1_Held /\ [][C1_Step]_vars

\* C1 witness: a Box went through into_raw and from_raw and was then dropped,
\* releasing its allocation once.
C1_Witness ==
    /\ last.op = "drop"
    /\ last.val.tag = "Box"
    /\ last.pre.op = "from_raw"
    /\ \E a \in HeapAddrs : heap[a].st = "freed" /\ heap[a].frees = 1

C7_Count ==
    \A a \in HeapAddrs :
        heap[a].st = "live" /\ heap[a].kind \in SharedKinds
            => heap[a].strong = Handles(a) + raws[a]

C7_Step ==
    last'.op \in {"as_ptr", "into_raw", "from_raw"}
        => \A a \in HeapAddrs : heap'[a].strong = heap[a].strong

\* C7: for Rc and Arc the strong count equals the live handles plus the
\* pointers into_raw returned and from_raw has not taken back, and no step of
\* as_ptr, into_raw or from_raw changes it.
C7_StrongCount == []C7_Count /\ [][C7_Step]_vars

\* C7 witness: one of two Rc handles was consumed by into_raw; the count is
\* still 2, held by one handle and one raw pointer.
C7_Witness ==
    /\ last.op = "into_raw"
    /\ \E a \in HeapAddrs :
        /\ heap[a].kind = "Rc"
        /\ heap[a].strong = 2
        /\ Handles(a) = 1
        /\ raws[a] = 1

\* The owning types of the round-trip law.
IsOwnedType(T) == T.tag \in OwnedKinds

\* last is a from_raw that took the pointer the into_raw directly before it
\* returned, at the same type.
RoundTrip == last.op = "from_raw" /\ last.pre.op = "into_raw"

\* C2: W::from_raw(v.into_raw()) for W in Box, Rc, Arc, CString is a handle
\* over the same payload address as v, with the same payload contents.
C2_RoundTrip ==
    RoundTrip /\ IsOwnedType(last.ty)
        => /\ last.val = last.pre.val
           /\ last.obs = last.pre.obs
           /\ last.obs # <<>>

\* C2 witness: a CString was consumed and rebuilt at once.
C2_Witness ==
    /\ RoundTrip
    /\ last.ty = Base("CString")
    /\ last.val = Owned("CString", last.ptr)

\* C3 as stated: Option::<T>::from_raw(x.into_raw()) equals x for every x.
C3_Original ==
    RoundTrip /\ last.ty.tag = "Option"
        => last.val = last.pre.val /\ last.obs = last.pre.obs

\* C3: Option::<T>::from_raw(x.into_raw()) equals x when x is None or the
\* pointer x.into_raw() returned is not null, which is so for every Some over
\* Box, Rc, Arc, CString and NonNull; a Some whose inner value encodes to
\* null (Some(null) of Option<*mut U>, Some(None) of a nested Option) comes
\* back as None.
C3_OptionRoundTrip ==
    RoundTrip /\ last.ty.tag = "Option"
        => /\ last.pre.val = None \/ last.ptr # Null
                => last.val = last.pre.val /\ last.obs = last.pre.obs
           /\ last.pre.val # None /\ last.ptr = Null
                => /\ last.val = None
                   /\ BaseOf(last.ty) = "MutPtr" \/ last.ty.inner.tag = "Option"
           /\ last.ty.inner.tag \in OwnedKinds \cup {"NonNull"}
                => last.val = last.pre.val

\* C3 witness: Some(Box) was encoded to a non-null pointer and decoded back.
C3_Witness ==
    /\ RoundTrip
    /\ last.ty = OptionOf(Base("Box"))
    /\ last.pre.val = Some(Owned("Box", last.ptr))
    /\ last.val = last.pre.val

\* C4: Option<T>::from_raw(null) is None and makes no call of T::from_raw;
\* on a non-null pointer it is Some(T::from_raw(raw)), and no call of an inner
\* from_raw made through Option gets a null pointer.
C4_NullChecked ==
    last.op = "from_raw" /\ last.ty.tag = "Option"
        => /\ last.ptr = Null => last.val = None /\ last.calls = <<>>
           /\ last.ptr # Null
                => /\ last.val = Some(FromRawOf(last.ty.inner, last.ptr).val)
                   /\ last.calls # <<>>
                   /\ Head(last.calls) = [ty |-> last.ty.inner, raw |-> last.ptr]
           /\ \A i \in 1..Len(last.calls) : last.calls[i].raw # Null

\* C4 witness: Option<NonNull<T>>::from_raw was given the null pointer.
C4_Witness ==
    /\ last.op = "from_raw"
    /\ last.ty = OptionOf(Base("NonNull"))
    /\ last.ptr = Null
    /\ last.val = None

\* C5: Option<T>::into_raw is null for None and v.into_raw() for Some(v); for
\* T among Box, Rc, Arc, CString and NonNull it is null exactly for None.
C5_OptionIntoRaw ==
    last.op = "into_raw" /\ last.ty.tag = "Option"
        => /\ last.val = None => last.ptr = Null
           /\ last.val # None => last.ptr = IntoRawOf(last.val.inner, heap).ptr
           /\ last.ty.inner.tag \in OwnedKinds \cup {"NonNull"}
                => (last.ptr = Null <=> last.val = None)

\* C5 witness: None of Option<Rc<T>> was encoded as the null pointer.
C5_Witness ==
    /\ last.op = "into_raw"
    /\ last.ty = OptionOf(Base("Rc"))
    /\ last.val = None
    /\ last.ptr = Null

C6_Pointer ==
    last.op = "as_ptr" /\ last.ty.tag = "Option"
        => /\ last.val = None => last.ptr = Null
           /\ last.val # None => last.ptr = AsPtrOf(last.val.inner, last.at)

C6_Step == last'.op = "as_ptr" => UNCHANGED <<heap, held, raws>>

\* C6: Option<T>::as_ptr is null for None and v.as_ptr() for Some(v), and the
\* step leaves the values held (the option among them), the heap and the
\* caller's pointers as they were.
C6_OptionAsPtr == []C6_Pointer /\ [][C6_Step]_vars

\* C6 witness: as_ptr on Some(&x) returned the address of x.
C6_Witness ==
    /\ last.op = "as_ptr"
    /\ last.ty = OptionOf(Base("Ref"))
    /\ last.val # None
    /\ last.ptr = last.val.inner.addr

\* C8: into_raw and from_raw on *mut T, from_raw on *const T and as_ptr on
\* *const T keep the address, null included.
C8_RawIdentity ==
    /\ last.op = "into_raw" /\ last.ty = Base("MutPtr")
        => last.ptr = last.val.addr
    /\ last.op = "from_raw" /\ last.ty \in {Base("MutPtr"), Base("ConstPtr")}
        => last.val = Ptr(last.ty.tag, last.ptr)
    /\ last.op = "as_ptr" /\ last.ty = Base("ConstPtr")
        => last.ptr = last.val.addr

\* C8 witness: <*mut T>::from_raw(p) directly after <*mut T>::into_raw(p) for
\* the null pointer p.
C8_Witness ==
    /\ RoundTrip
    /\ last.ty = Base("MutPtr")
    /\ last.pre.val = Ptr("MutPtr", Null)
    /\ last.val = Ptr("MutPtr", Null)

\* C9: a Box rebuilt by from_raw directly after a store through the pointer
\* into_raw returned holds the stored value, at the address stored to.
C9_WriteObserved ==
    last.op = "from_raw" /\ last.pre.op = "write" /\ BaseOf(last.ty) = "Box"
        => /\ last.obs = last.pre.obs
           /\ Innermost(last.val) = Owned("Box", last.pre.ptr)

\* C9 witness: the payload was 5, 6 was stored through the pointer, and the
\* rebuilt Box<T> holds 6.
C9_Witness ==
    /\ last.op = "from_raw"
    /\ last.ty = Base("Box")
    /\ last.pre.op = "write"
    /\ last.pre.old = <<5>>
    /\ last.pre.obs = <<6>>
    /\ last.obs = <<6>>

\* C10: into_raw directly after as_ptr on the same value of Box, Rc, Arc,
\* CString, NonNull or an Option of these returns the address as_ptr returned.
C10_SameAddress ==
    (/\ last.op = "into_raw"
     /\ last.pre.op = "as_ptr"
     /\ BaseOf(last.ty) \in OwnedKinds \cup {"NonNull"})
        => last.ptr = last.pre.ptr

\* C10 witness: as_ptr and then into_raw on a Box, both the payload address.
C10_Witness ==
    /\ last.op = "into_raw"
    /\ last.pre.op = "as_ptr"
    /\ last.ty = Base("Box")
    /\ last.ptr = last.val.addr
    /\ last.ptr \in HeapAddrs

====
